---- MODULE Spec2Model ----
(***************************************************************************)
(* Uplift report helpers (lib/helpers.py, class Helpers).                  *)
(*                                                                         *)
(* A pandas DataFrame is a record [cols, rows]: the set of column names    *)
(* and the sequence of rows, each row a record over exactly those columns. *)
(* A call's outcome is a record [raised, value]: raised = "none" when the  *)
(* call returns value, otherwise the name of the exception it raises.      *)
(* Timestamps are integers (seconds), user ids are integers.               *)
(***************************************************************************)
EXTENDS Integers, Sequences, FiniteSets, TLC

VARIABLES pc, marks_and_spend_df, attributions_df, max_timedelta, groups,
          per_campaign_results, bootstrap_size_arg, bootstrap_size, sample,
          marks_df, remarked_df, users_df, deduplicated_df, uplift_df, report_df,
          calculated_ad_spend, bootstrapped_means, mean_ci

vars == <<pc, marks_and_spend_df, attributions_df, max_timedelta, groups,
          per_campaign_results, bootstrap_size_arg, bootstrap_size, sample,
          marks_df, remarked_df, users_df, deduplicated_df, uplift_df, report_df,
          calculated_ad_spend, bootstrapped_means, mean_ci>>

----------------------------------------------------------------------------
(* Bounds of the explored inputs: the number of rows of the input tables and *)
(* the largest deduplication gap                                              *)

MaxMarkRows == 3
MaxMergeMarkRows == 2
MaxAttrRows == 2
MaxDedupRows == 3
MaxGap == 2
MaxReportRows == 3
MaxReportAttrRows == 1

MaxUpliftRows == 4

MaxUpliftAttrRows == 1

MaxSpendRows == 3

MaxFrameRows == 2

MaxFrameAttrRows == 2

MaxBootstrapSize == 41

----------------------------------------------------------------------------
(* Constants of the program *)

TEST == "test"
CONTROL == "control"

Micros == 1000000

----------------------------------------------------------------------------
(* Values *)

None == [type |-> "NoneType"]

\* a float cell that holds no value (pandas NaN) is the empty sequence,
\* a cell that holds v is <<v>>
NaN == <<>>

Returns(v) == [raised |-> "none", value |-> v]

Raises(e) == [raised |-> e, value |-> None]

\* the local does not exist yet
Pending == [raised |-> "pending", value |-> None]

DataFrame(cols, rows) == [cols |-> cols, rows |-> rows]

\* a call that works on the caller's table itself
in_place(df, result) == result

\* the table the caller holds after a pandas call on it gave result: df[...],
\* drop, sort_values, drop_duplicates and pd.merge return a new table, and no
\* call passes inplace=True
returns_new(df, result) == df

MARKS_COLUMNS == {"ts", "user_id", "event_type", "ab_test_group", "campaign_id", "cost_eur"}

ATTRIBUTIONS_COLUMNS == {"ts", "user_id", "revenue_eur"}

\* all sequences over S of length at most n
SeqUpTo(S, n) == UNION {[1..k -> S] : k \in 0..n}

RECURSIVE Pick(_, _, _)
\* the rows of a table at the positions in keep, in table order (boolean mask)
Pick(rows, keep, i) ==
    IF i > Len(rows) THEN <<>>
    ELSE (IF i \in keep THEN <<rows[i]>> ELSE <<>>) \o Pick(rows, keep, i + 1)

Mask(rows, keep) == Pick(rows, keep, 1)

----------------------------------------------------------------------------
(* Helpers._marked *)

\* df[df.event_type == 'mark'] on a table that has the column
filter_event_type(df, t) ==
    DataFrame(df.cols, SelectSeq(df.rows, LAMBDA r : r.event_type = t))

drop_columns_noop(df, c) == df

\* mark_df.drop(columns=['event_type'])
drop_columns(df, c) ==
    DataFrame(df.cols \ {c},
              [i \in 1..Len(df.rows) |-> [k \in (DOMAIN df.rows[i]) \ {c} |-> df.rows[i][k]]])

RECURSIVE AscendingOrders(_, _)
\* the orders of the positions in todo in which ts never decreases
AscendingOrders(rows, todo) ==
    IF todo = {} THEN {<<>>}
    ELSE UNION {{<<i>> \o rest : rest \in AscendingOrders(rows, todo \ {i})} :
                  i \in {j \in todo : \A k \in todo : rows[j].ts <= rows[k].ts}}

\* sort_values('ts'): default kind is quicksort, which is not stable, so rows
\* with equal ts may come out in any relative order
sort_values_ts(rows) ==
    {[i \in 1..Len(rows) |-> rows[p[i]]] : p \in AscendingOrders(rows, 1..Len(rows))}

\* drop_duplicates(['user_id']): keep='first'
drop_duplicates_keep_last(rows) ==
    Mask(rows, {i \in 1..Len(rows) :
                  \A j \in (i + 1)..Len(rows) : rows[j].user_id # rows[i].user_id})

drop_duplicates(rows) ==
    Mask(rows, {i \in 1..Len(rows) :
                  \A j \in 1..(i - 1) : rows[j].user_id # rows[i].user_id})

\* the set of outcomes of _marked(df)
_marked(df) ==
    IF df.rows = <<>> THEN {Returns(df)}
    ELSE IF "event_type" \notin df.cols THEN {Raises("AttributeError")}
    ELSE LET mark_df == drop_columns(filter_event_type(df, "mark"), "event_type")
         IN  {Returns(DataFrame(mark_df.cols, drop_duplicates(sorted_mark_df))) :
                sorted_mark_df \in sort_values_ts(mark_df.rows)}

----------------------------------------------------------------------------
(* Helpers._merge_into_users_df *)

RECURSIVE Flatten(_)
\* concatenation of a sequence of sequences
Flatten(ss) == IF ss = <<>> THEN <<>> ELSE Head(ss) \o Flatten(Tail(ss))

RECURSIVE SumCells(_)
\* Series.sum(): the cells without a value are skipped, no cell at all gives 0
SumCells(cells) ==
    IF cells = <<>> THEN 0
    ELSE (IF Head(cells) = NaN THEN 0 ELSE Head(cells)[1]) + SumCells(Tail(cells))

RECURSIVE SortedKeys(_)
\* the group keys in ascending order (groupby sorts its keys)
SortedKeys(S) ==
    IF S = {} THEN <<>>
    ELSE LET m == CHOOSE x \in S : \A y \in S : x <= y
         IN  <<m>> \o SortedKeys(S \ {m})

\* one joined row: the left row with ts renamed ts_x, and the right row's ts
\* (as ts_y) and revenue_eur, both without a value when there is no right row
JoinedRow(m, ts_y, revenue_eur) ==
    [k \in ((DOMAIN m) \ {"ts"}) \cup {"ts_x", "ts_y", "revenue_eur"} |->
       CASE k = "ts_x" -> m.ts
         [] k = "ts_y" -> ts_y
         [] k = "revenue_eur" -> revenue_eur
         [] OTHER -> m[k]]

Matches(m, right) == SelectSeq(right.rows, LAMBDA a : a.user_id = m.user_id)

pd_merge_inner(left, right) ==
    Flatten([i \in 1..Len(left.rows) |->
               LET m == left.rows[i]
                   matches == Matches(m, right)
               IN  [j \in 1..Len(matches) |->
                      JoinedRow(m, <<matches[j].ts>>, <<matches[j].revenue_eur>>)]])

\* pd.merge(marks_df, attributions_df, on='user_id', how='left')
pd_merge_left(left, right) ==
    Flatten([i \in 1..Len(left.rows) |->
               LET m == left.rows[i]
                   matches == Matches(m, right)
               IN  IF matches = <<>> THEN <<JoinedRow(m, NaN, NaN)>>
                   ELSE [j \in 1..Len(matches) |->
                           JoinedRow(m, <<matches[j].ts>>, <<matches[j].revenue_eur>>)]])

ts_x_le_ts_y(row) == row.ts_y # NaN /\ row.ts_x <= row.ts_y[1]

\* merged_df.ts_x < merged_df.ts_y: False where ts_y has no value
ts_x_lt_ts_y(row) == row.ts_y # NaN /\ row.ts_x < row.ts_y[1]

\* bool * number
Times(b, cell) == IF cell = NaN THEN NaN ELSE IF b THEN cell ELSE <<0>>

_merge_into_users_df(marks, attributions) ==
    LET merged_df == pd_merge_left(marks, attributions)
        counted == [i \in 1..Len(merged_df) |->
                      LET row == merged_df[i]
                          conversion_count == IF row.ts_y = NaN THEN <<0>> ELSE <<1>>
                      IN  [user_id |-> row.user_id,
                           ab_test_group |-> row.ab_test_group,
                           conversion_count |-> Times(ts_x_lt_ts_y(row), conversion_count),
                           revenue_eur |-> Times(ts_x_lt_ts_y(row), row.revenue_eur)]]
        keys == SortedKeys({counted[i].user_id : i \in 1..Len(counted)})
    IN  DataFrame({"user_id", "ab_test_group", "conversion_count", "revenue_eur"},
                  [k \in 1..Len(keys) |->
                     LET grp == SelectSeq(counted, LAMBDA r : r.user_id = keys[k])
                     IN  [user_id |-> keys[k],
                          ab_test_group |-> grp[1].ab_test_group,
                          conversion_count |->
                            SumCells([i \in 1..Len(grp) |-> grp[i].conversion_count]),
                          revenue_eur |->
                            SumCells([i \in 1..Len(grp) |-> grp[i].revenue_eur])]])

----------------------------------------------------------------------------
(* Helpers._drop_duplicates_in_attributions *)

\* row i comes before row j under the sort keys (user_id, revenue_eur); the
\* sort on several keys is stable, rows with equal keys keep their table order
KeysBefore(rows, i, j) ==
    \/ rows[i].user_id < rows[j].user_id
    \/ rows[i].user_id = rows[j].user_id /\ rows[i].revenue_eur < rows[j].revenue_eur
    \/ rows[i].user_id = rows[j].user_id /\ rows[i].revenue_eur = rows[j].revenue_eur /\ i < j

RECURSIVE SortPositions(_, _)
SortPositions(rows, todo) ==
    IF todo = {} THEN <<>>
    ELSE LET m == CHOOSE i \in todo : \A j \in todo \ {i} : KeysBefore(rows, i, j)
         IN  <<m>> \o SortPositions(rows, todo \ {m})

\* df.sort_values(['user_id', 'revenue_eur'])
sort_values_user_revenue(rows) ==
    LET order == SortPositions(rows, 1..Len(rows))
    IN  [i \in 1..Len(rows) |-> rows[order[i]]]

\* (to_datetime(ts) - to_datetime(last_ts)) > max_timedelta
apart(ts, last_ts, gap) == ts - last_ts > gap

_drop_duplicates_in_attributions(df, gap) ==
    LET sorted_values == sort_values_user_revenue(df.rows)
        \* the first row has no previous row: the shifted cells hold no value
        \* and compare unequal to everything
        keep == {i \in 1..Len(sorted_values) :
                   \/ i = 1
                   \/ sorted_values[i].user_id # sorted_values[i - 1].user_id
                   \/ sorted_values[i].revenue_eur # sorted_values[i - 1].revenue_eur
                   \/ apart(sorted_values[i].ts, sorted_values[i - 1].ts, gap)}
        filtered == Mask(sorted_values, keep)
    IN  DataFrame({"ts", "user_id", "revenue_eur"},
                  [i \in 1..Len(filtered) |->
                     [ts |-> filtered[i].ts, user_id |-> filtered[i].user_id,
                      revenue_eur |-> filtered[i].revenue_eur]])

----------------------------------------------------------------------------
(* Floating point values of the KPIs.  A finite value is the exact fraction *)
(* n/d in lowest terms with its sign bit (so that -0.0 differs from 0.0),   *)
(* the others are the infinities and not-a-number of numpy's float64, which *)
(* divides by zero without raising.  Rounding is not modelled.              *)

RECURSIVE GCD(_, _)
GCD(a, b) == IF b = 0 THEN a ELSE GCD(b, a % b)

Abs(x) == IF x < 0 THEN -x ELSE x

Zero(neg) == [k |-> "fin", n |-> 0, d |-> 1, neg |-> neg]

Fin(n, d) ==
    IF n = 0 THEN Zero(FALSE)
    ELSE LET g == GCD(Abs(n), d)
         IN  [k |-> "fin", n |-> n \div g, d |-> d \div g, neg |-> n < 0]

Inf(neg) == [k |-> "inf", n |-> 0, d |-> 1, neg |-> neg]

NotANumber == [k |-> "nan", n |-> 0, d |-> 1, neg |-> FALSE]

Str(s) == [k |-> "str", s |-> s]

\* a - b for a finite b; x - x is +0.0, and an infinite or not-a-number a
\* stays what it is
Sub(a, b) == IF a.k # "fin" THEN a ELSE Fin(a.n * b.d - b.n * a.d, a.d * b.d)

\* a * b of finite values
Mul(a, b) == IF a.n * b.n = 0 THEN Zero(a.neg # b.neg) ELSE Fin(a.n * b.n, a.d * b.d)

\* a / b of finite values
Div(a, b) ==
    IF b.n = 0 THEN (IF a.n = 0 THEN NotANumber ELSE Inf(a.neg # b.neg))
    ELSE IF a.n = 0 THEN Zero(a.neg # b.neg)
    ELSE Fin(IF b.n < 0 THEN -(a.n * b.d) ELSE a.n * b.d, a.d * Abs(b.n))

\* x < 0: false for both zeros and for not-a-number
LessThanZero(x) ==
    \/ x.k = "fin" /\ x.n < 0
    \/ x.k = "inf" /\ x.neg

GreaterThanZero(x) ==
    \/ x.k = "fin" /\ x.n > 0
    \/ x.k = "inf" /\ ~x.neg

----------------------------------------------------------------------------
(* Helpers._calculate_ad_spend *)

RECURSIVE SumColumn(_, _)
SumColumn(rows, c) == IF rows = <<>> THEN 0 ELSE Head(rows)[c] + SumColumn(Tail(rows), c)

\* a mask that takes the spend rows of both groups
spend_mask_any_group(r) == r.event_type = "buying_conversion"

\* (df.event_type == 'buying_conversion') & (df.ab_test_group == TEST)
spend_mask(r) == r.event_type = "buying_conversion" /\ r.ab_test_group = TEST

_calculate_ad_spend(df) ==
    LET spend == SelectSeq(df.rows, spend_mask)
    IN  Fin(SumColumn(spend, "cost_eur"), Micros)

----------------------------------------------------------------------------
(* Helpers._uplift *)

NEGATIVE_CONVERTERS == Str("Negative incremental converters estimate")

NEGATIVE_CONVERSIONS == Str("Negative incremental conversions estimate")

CI_NEGATIVE == Str("CI contains negative value, cannot be intepreted")

\* self.confidence_level, at its default 0.95, as a fraction
confidence_level == [n |-> 95, d |-> 100]

\* (1 - self.confidence_level) / 2
lower_quantile(level) == [n |-> level.d - level.n, d |-> 2 * level.d]

\* (1 - self.confidence_level) / 2 + self.confidence_level
upper_quantile(level) == [n |-> level.d + level.n, d |-> 2 * level.d]

RECURSIVE Power(_, _)
Power(b, e) == IF e = 0 THEN 1 ELSE b * Power(b, e - 1)

RECURSIVE Binomial(_, _)
Binomial(n, k) ==
    IF k = 0 \/ k = n THEN 1 ELSE Binomial(n - 1, k - 1) + Binomial(n - 1, k)

RECURSIVE BinomCdf(_, _, _)
\* n^n times the probability of at most k successes in n trials of
\* probability c/n
BinomCdf(k, n, c) ==
    Binomial(n, k) * Power(c, k) * Power(n - c, n - k)
    + (IF k = 0 THEN 0 ELSE BinomCdf(k - 1, n, c))

\* scipy.stats.binom.ppf(q, n, c / n): the least k with cdf(k) >= q
binom_ppf(q, n, c) ==
    LET reached(k) == q.d * BinomCdf(k, n, c) >= q.n * Power(n, n)
    IN  Fin(CHOOSE k \in 0..n : reached(k) /\ \A j \in 0..(k - 1) : ~reached(j), 1)

RECURSIVE Sums(_, _)
\* the sums of n values drawn with replacement from the cells of a sample
Sums(cells, n) ==
    IF n = 0 THEN {0}
    ELSE {t + cells[i] : t \in Sums(cells, n - 1), i \in 1..Len(cells)}

\* np.random.choice(sample, len(sample), replace=True).mean(), every outcome
ResampleMeans(cells) == {Fin(t, Len(cells)) : t \in Sums(cells, Len(cells))}

\* a <= b of finite values
LessOrEqual(a, b) == a.n * b.d <= b.n * a.d

\* the configured size kept as it is
init_bootstrap_size_as_is(configured) == configured

\* Helpers.__init__: the bootstrap size kept for a configured one
init_bootstrap_size(configured) ==
    IF configured % 10 = 0 THEN configured - 1 ELSE configured

\* the default of the bootstrap_size parameter of Helpers.__init__
DEFAULT_BOOTSTRAP_SIZE == 10000

\* int(((1 - confidence_level) / 2) * (bootstrap_size + 1))
lower_index(size, level) == (lower_quantile(level).n * (size + 1)) \div lower_quantile(level).d

\* int(((1 - confidence_level) / 2 + confidence_level) * (bootstrap_size + 1))
upper_index(size, level) == (upper_quantile(level).n * (size + 1)) \div upper_quantile(level).d

\* the two reads of the sorted list bootstrapped_means (positions from 0)
quantiles(means, size, level) ==
    LET l == lower_index(size, level)
        u == upper_index(size, level)
    IN  IF l >= Len(means) \/ u >= Len(means)
        THEN Raises("IndexError")
        ELSE Returns(<<means[l + 1], means[u + 1]>>)

RECURSIVE SortedLists(_, _)
\* bootstrapped_means after sort(): the sorted lists of size resample means
SortedLists(means, size) ==
    IF size <= 0 THEN {<<>>}
    ELSE UNION {{Append(l, m) :
                   m \in {x \in means : size = 1 \/ LessOrEqual(l[size - 1], x)}} :
                l \in SortedLists(means, size - 1)}

\* the set of outcomes of _bootstrap_mean_ci(sample): the sorted list holds
\* size resample means, any of them, so the two reads give any two means in
\* order, the same mean when the two positions coincide
_bootstrap_mean_ci(cells, size, level) ==
    LET l == lower_index(size, level)
        u == upper_index(size, level)
    IN  IF l >= size \/ u >= size THEN {Raises("IndexError")}
        ELSE {Returns(<<a, b>>) :
                <<a, b>> \in {m \in ResampleMeans(cells) \X ResampleMeans(cells) :
                               IF l = u THEN m[1] = m[2] ELSE LessOrEqual(m[1], m[2])}}

\* the names bound at module level of lib/helpers.py (imports, log and the
\* two classes); CONFIDENCE_LEVEL is not one of them
MODULE_GLOBALS ==
    {"os", "plt", "np", "pd", "scipy", "s3fs", "xxhash", "datetime", "__version__",
     "TEST", "CONTROL", "CSV_SOURCE_MARKS_AND_SPEND", "CSV_SOURCE_ATTRIBUTIONS",
     "USER_ID_LENGTH", "log", "Helpers", "_CSVHelpers"}

\* grouped_users.get_group(name): the rows of the group, KeyError when no row
\* has that group
get_group(users, name) ==
    LET rows == SelectSeq(users.rows, LAMBDA r : r.ab_test_group = name)
    IN  IF rows = <<>> THEN Raises("KeyError") ELSE Returns(rows)

\* (users_df['conversion_count'] > 0).sum()
Converters(rows) == Len(SelectSeq(rows, LAMBDA r : r.conversion_count > 0))

\* if <quotient> < 0: <quotient> = <sentinel>
replace_if_negative(quotient, sentinel) ==
    IF LessThanZero(quotient) THEN sentinel ELSE quotient

\* each bound replaced on its own sign
replace_if_negative_bound_each(u_bound, bound) ==
    IF LessThanZero(bound) THEN CI_NEGATIVE ELSE bound

\* if <u_bound> < 0: <l_bound> = <u_bound> = 'CI contains negative value, ...'
replace_if_negative_bound(u_bound, bound) ==
    IF LessThanZero(u_bound) THEN CI_NEGATIVE ELSE bound

\* an iROAS that is replaced like the cost KPIs
iroas_replaced(incremental_revenue, ad_spend) ==
    replace_if_negative(Div(incremental_revenue, ad_spend), CI_NEGATIVE)

\* incremental_revenue_... / ad_spend
iroas(incremental_revenue, ad_spend) == Div(incremental_revenue, ad_spend)

\* an estimate that leaves the control count unscaled
incremental_estimate_unscaled(test, control, ratio) ==
    Sub(Fin(test, 1), Fin(control, 1))

\* test_... - control_... * ratio
incremental_estimate(test, control, ratio) ==
    Sub(Fin(test, 1), Mul(Fin(control, 1), ratio))

\* bounds that subtract the null bound of the same side
incremental_bounds_same_side(test, scaled_null_l_bound, scaled_null_u_bound) ==
    <<Sub(test, scaled_null_l_bound), Sub(test, scaled_null_u_bound)>>

\* incremental_..._l_bound = test_... - <scaled null upper bound>
\* incremental_..._u_bound = test_... - <scaled null lower bound>
incremental_bounds(test, scaled_null_l_bound, scaled_null_u_bound) ==
    <<Sub(test, scaled_null_u_bound), Sub(test, scaled_null_l_bound)>>

\* users_df[column] as the list of its cells
Column(rows, c) == [i \in 1..Len(rows) |-> rows[i][c]]

\* the locals of _uplift at the assembly of the output, for the confidence
\* intervals conversions_ci and revenue_ci that _bootstrap_mean_ci returned
uplift_locals(marks_and_spend, test_rows, control_rows, conversions_ci, revenue_ci) ==
    LET ad_spend == _calculate_ad_spend(marks_and_spend)
        test_group_size == Len(test_rows)
        control_group_size == Len(control_rows)
        test_revenue_micros == SumColumn(test_rows, "revenue_eur")
        test_conversions == SumColumn(test_rows, "conversion_count")
        test_converters == Converters(test_rows)
        control_revenue_micros == SumColumn(control_rows, "revenue_eur")
        control_conversions == SumColumn(control_rows, "conversion_count")
        control_converters == Converters(control_rows)
        ratio == Fin(test_group_size, control_group_size)
        \* converter KPIs
        scaled_control_converters == Mul(Fin(control_converters, 1), ratio)
        no_treat_converters_l_bound ==
            binom_ppf(lower_quantile(confidence_level), control_group_size,
                      control_converters)
        no_treat_converters_u_bound ==
            binom_ppf(upper_quantile(confidence_level), control_group_size,
                      control_converters)
        incremental_converters_estimate ==
            incremental_estimate(test_converters, control_converters, ratio)
        incremental_converters_bounds ==
            incremental_bounds(Fin(test_converters, 1),
                               Mul(no_treat_converters_l_bound, ratio),
                               Mul(no_treat_converters_u_bound, ratio))
        incremental_converters_l_bound == incremental_converters_bounds[1]
        incremental_converters_u_bound == incremental_converters_bounds[2]
        cost_per_incremental_converter_estimate ==
            Div(ad_spend, incremental_converters_estimate)
        cost_per_incremental_converter_l_bound ==
            Div(ad_spend, incremental_converters_u_bound)
        cost_per_incremental_converter_u_bound ==
            Div(ad_spend, incremental_converters_l_bound)
        \* conversion KPIs
        scaled_control_conversions == Mul(Fin(control_conversions, 1), ratio)
        scaled_no_treat_conversions_l_bound ==
            Mul(Mul(conversions_ci[1], Fin(control_group_size, 1)), ratio)
        scaled_no_treat_conversions_u_bound ==
            Mul(Mul(conversions_ci[2], Fin(control_group_size, 1)), ratio)
        incremental_conversions_estimate ==
            incremental_estimate(test_conversions, control_conversions, ratio)
        incremental_conversions_bounds ==
            incremental_bounds(Fin(test_conversions, 1),
                               scaled_no_treat_conversions_l_bound,
                               scaled_no_treat_conversions_u_bound)
        incremental_conversions_l_bound == incremental_conversions_bounds[1]
        incremental_conversions_u_bound == incremental_conversions_bounds[2]
        icpa_estimate == Div(ad_spend, incremental_conversions_estimate)
        icpa_l_bound == Div(ad_spend, incremental_conversions_u_bound)
        icpa_u_bound == Div(ad_spend, incremental_conversions_l_bound)
        no_treat_cvr_l_bound ==
            Div(scaled_no_treat_conversions_l_bound, Fin(test_group_size, 1))
        no_treat_cvr_u_bound ==
            Div(scaled_no_treat_conversions_u_bound, Fin(test_group_size, 1))
        test_cvr == Fin(test_conversions, test_group_size)
        control_cvr == Fin(control_conversions, control_group_size)
        \* revenue KPIs
        test_revenue == Fin(test_revenue_micros, Micros)
        control_revenue == Fin(control_revenue_micros, Micros)
        scaled_control_revenue == Mul(control_revenue, ratio)
        scaled_no_treat_revenue_l_bound ==
            Div(Mul(Mul(revenue_ci[1], Fin(control_group_size, 1)), ratio), Fin(Micros, 1))
        scaled_no_treat_revenue_u_bound ==
            Div(Mul(Mul(revenue_ci[2], Fin(control_group_size, 1)), ratio), Fin(Micros, 1))
        incremental_revenue_estimate == Sub(test_revenue, scaled_control_revenue)
        incremental_revenue_bounds ==
            incremental_bounds(test_revenue, scaled_no_treat_revenue_l_bound,
                               scaled_no_treat_revenue_u_bound)
        incremental_revenue_l_bound == incremental_revenue_bounds[1]
        incremental_revenue_u_bound == incremental_revenue_bounds[2]
    IN  [ad_spend |-> ad_spend,
         total_revenue |-> Fin(test_revenue_micros + control_revenue_micros, Micros),
         control_group_size |-> control_group_size,
         test_group_size |-> test_group_size,
         ratio |-> ratio,
         control_converters |-> control_converters,
         scaled_control_converters |-> scaled_control_converters,
         test_converters |-> test_converters,
         no_treat_converters_l_bound |-> no_treat_converters_l_bound,
         no_treat_converters_u_bound |-> no_treat_converters_u_bound,
         incremental_converters_estimate |-> incremental_converters_estimate,
         incremental_converters_l_bound |-> incremental_converters_l_bound,
         incremental_converters_u_bound |-> incremental_converters_u_bound,
         cost_per_incremental_converter_estimate |->
             replace_if_negative(cost_per_incremental_converter_estimate,
                                 NEGATIVE_CONVERTERS),
         cost_per_incremental_converter_l_bound |->
             replace_if_negative_bound(cost_per_incremental_converter_u_bound,
                                       cost_per_incremental_converter_l_bound),
         cost_per_incremental_converter_u_bound |->
             replace_if_negative_bound(cost_per_incremental_converter_u_bound,
                                       cost_per_incremental_converter_u_bound),
         control_conversions |-> control_conversions,
         scaled_control_conversions |-> scaled_control_conversions,
         test_conversions |-> test_conversions,
         scaled_no_treat_conversions_l_bound |-> scaled_no_treat_conversions_l_bound,
         scaled_no_treat_conversions_u_bound |-> scaled_no_treat_conversions_u_bound,
         incremental_conversions_estimate |-> incremental_conversions_estimate,
         incremental_conversions_l_bound |-> incremental_conversions_l_bound,
         incremental_conversions_u_bound |-> incremental_conversions_u_bound,
         icpa_estimate |->
             replace_if_negative(icpa_estimate, NEGATIVE_CONVERSIONS),
         icpa_l_bound |-> replace_if_negative_bound(icpa_u_bound, icpa_l_bound),
         icpa_u_bound |-> replace_if_negative_bound(icpa_u_bound, icpa_u_bound),
         control_cvr |-> control_cvr,
         test_cvr |-> test_cvr,
         uplift_estimate |->
             IF GreaterThanZero(control_cvr)
             THEN Sub(Div(test_cvr, control_cvr), Fin(1, 1)) ELSE Zero(FALSE),
         uplift_bounds_assigned |-> GreaterThanZero(control_cvr),
         uplift_l_bound |->
             IF GreaterThanZero(control_cvr)
             THEN Sub(Div(test_cvr, no_treat_cvr_u_bound), Fin(1, 1)) ELSE None,
         uplift_u_bound |->
             IF GreaterThanZero(control_cvr)
             THEN Sub(Div(test_cvr, no_treat_cvr_l_bound), Fin(1, 1)) ELSE None,
         control_revenue |-> control_revenue,
         scaled_control_revenue |-> scaled_control_revenue,
         test_revenue |-> test_revenue,
         scaled_no_treat_revenue_l_bound |-> scaled_no_treat_revenue_l_bound,
         scaled_no_treat_revenue_u_bound |-> scaled_no_treat_revenue_u_bound,
         incremental_revenue_estimate |-> incremental_revenue_estimate,
         incremental_revenue_l_bound |-> incremental_revenue_l_bound,
         incremental_revenue_u_bound |-> incremental_revenue_u_bound,
         iroas_estimate |-> iroas(incremental_revenue_estimate, ad_spend),
         iroas_l_bound |-> iroas(incremental_revenue_l_bound, ad_spend),
         iroas_u_bound |-> iroas(incremental_revenue_u_bound, ad_spend),
         rev_per_conversion_control |->
             IF control_conversions > 0
             THEN Div(control_revenue, Fin(control_conversions, 1)) ELSE Zero(FALSE),
         rev_per_conversion_test |->
             IF test_conversions > 0
             THEN Div(test_revenue, Fin(test_conversions, 1)) ELSE Zero(FALSE)]

\* the outcome of a call of _uplift: what it raises or returns, and the locals
\* it had computed by then (None when it left before computing them)
UpliftOutcome(raised, value, locals) ==
    [raised |-> raised, value |-> value, locals |-> locals]

\* the dict display and pd.DataFrame(...).transpose(): evaluating the key of
\* the first CI entry reads the global CONFIDENCE_LEVEL; uplift_l_bound and
\* uplift_u_bound are only assigned when control_cvr > 0
output(locals, index_name) ==
    IF "CONFIDENCE_LEVEL" \notin MODULE_GLOBALS
    THEN UpliftOutcome("NameError", None, locals)
    ELSE IF ~locals.uplift_bounds_assigned
    THEN UpliftOutcome("UnboundLocalError", None, locals)
    ELSE UpliftOutcome("none", [index |-> index_name, kpis |-> locals], locals)

uplift_of_marks(marks, marks_and_spend, attributions, index_name, size) ==
    LET merged_users_df == _merge_into_users_df(marks, attributions)
        test_users_df == get_group(merged_users_df, TEST)
        control_users_df == get_group(merged_users_df, CONTROL)
    IN  IF test_users_df.raised # "none"
        THEN {UpliftOutcome(test_users_df.raised, None, None)}
        ELSE IF Len(test_users_df.value) = 0
        THEN {UpliftOutcome("none", None, None)}
        ELSE IF control_users_df.raised # "none"
        THEN {UpliftOutcome(control_users_df.raised, None, None)}
        ELSE IF Len(control_users_df.value) = 0
        THEN {UpliftOutcome("none", None, None)}
        ELSE LET control_rows == control_users_df.value
             IN  {IF conversions.raised # "none"
                  THEN UpliftOutcome(conversions.raised, None, None)
                  ELSE IF revenue.raised # "none"
                  THEN UpliftOutcome(revenue.raised, None, None)
                  ELSE output(uplift_locals(marks_and_spend, test_users_df.value,
                                            control_rows, conversions.value,
                                            revenue.value), index_name) :
                    conversions \in _bootstrap_mean_ci(Column(control_rows, "conversion_count"),
                                                       size, confidence_level),
                    revenue \in _bootstrap_mean_ci(Column(control_rows, "revenue_eur"),
                                                   size, confidence_level)}

\* the set of outcomes of _uplift(marks_and_spend_df, attributions_df, index_name)
\* on an object whose bootstrap_size is size
_uplift(marks_and_spend, attributions, index_name, size) ==
    UNION {IF m.raised # "none" THEN {UpliftOutcome(m.raised, None, None)}
           ELSE uplift_of_marks(m.value, marks_and_spend, attributions, index_name, size) :
             m \in _marked(marks_and_spend)}

----------------------------------------------------------------------------
(* Helpers.uplift_report *)

\* marks_and_spend_df[marks_and_spend_df.campaign_id.isin(campaigns)]
filter_campaigns(df, campaigns) ==
    DataFrame(df.cols, SelectSeq(df.rows, LAMBDA r : r.campaign_id \in campaigns))

RECURSIVE Unique(_)
\* Series.unique(): the distinct values in order of first appearance
Unique(values) ==
    IF values = <<>> THEN <<>>
    ELSE LET front == Unique(SubSeq(values, 1, Len(values) - 1))
             last == values[Len(values)]
         IN  IF \E i \in 1..Len(front) : front[i] = last THEN front
             ELSE Append(front, last)

campaign_name(campaign) == "c_" \o ToString(campaign)

\* the slices after "total", in the order the two loops compute them
slices(df, named_groups, per_campaign) ==
    LET campaigns == Unique([i \in 1..Len(df.rows) |-> df.rows[i].campaign_id])
    IN  [i \in 1..Len(named_groups) |->
           [name |-> named_groups[i].name,
            df |-> filter_campaigns(df, named_groups[i].campaigns)]]
        \o (IF per_campaign
            THEN [i \in 1..Len(campaigns) |->
                    [name |-> campaign_name(campaigns[i]),
                     df |-> filter_campaigns(df, {campaigns[i]})]]
            ELSE <<>>)

\* report_df[name] = value: a new column goes last, an existing one is replaced
set_column(report, name, value) ==
    [columns |-> IF \E i \in 1..Len(report.columns) : report.columns[i] = name
                 THEN report.columns ELSE Append(report.columns, name),
     data |-> [c \in (DOMAIN report.data) \cup {name} |->
                 IF c = name THEN value ELSE report.data[c]]]

RECURSIVE assign_slices(_, _, _, _)
assign_slices(report, todo, attributions, size) ==
    IF todo = <<>> THEN {Returns(report)}
    ELSE UNION {IF o.raised # "none" THEN {Raises(o.raised)}
                ELSE assign_slices(set_column(report, Head(todo).name, o.value),
                                   Tail(todo), attributions, size) :
                  o \in _uplift(Head(todo).df, attributions, Head(todo).name, size)}

\* the set of outcomes of uplift_report(marks_and_spend_df, attributions_df)
uplift_report(df, attributions, named_groups, per_campaign, size) ==
    UNION {IF o.raised # "none" THEN {Raises(o.raised)}
           ELSE IF o.value = None THEN {Returns(None)}
           ELSE assign_slices([columns |-> <<"total">>,
                               data |-> [c \in {"total"} |-> o.value]],
                              slices(df, named_groups, per_campaign), attributions,
                              size) :
             o \in _uplift(df, attributions, "total", size)}

----------------------------------------------------------------------------
(* Inputs *)

Users == {1, 2}

\* rows of a marks-and-spend table for mark extraction
MarkEvents ==
    [ts : {0, 1}, user_id : Users, event_type : {"mark", "buying_conversion"},
     ab_test_group : {TEST, CONTROL}, campaign_id : {1}, cost_eur : {0}]

\* rows of a marks-and-spend table for the user merge: marks at time 1
MergeMarkEvents ==
    [ts : {1}, user_id : Users, event_type : {"mark"},
     ab_test_group : {TEST, CONTROL}, campaign_id : {1}, cost_eur : {0}]

\* attribution events before, at and after time 1
AttributionEvents == [ts : {0, 1, 2}, user_id : Users, revenue_eur : {1, 2}]

DedupEvents == [ts : {0, 1, 2, 3}, user_id : Users, revenue_eur : {1, 2}]

MarkEvent(user, group, campaign) ==
    [ts |-> 0, user_id |-> user, event_type |-> "mark", ab_test_group |-> group,
     campaign_id |-> campaign, cost_eur |-> 0]

SpendEvent(group) ==
    [ts |-> 0, user_id |-> 1, event_type |-> "buying_conversion", ab_test_group |-> group,
     campaign_id |-> 1, cost_eur |-> Micros]

\* rows of a marks-and-spend table for the report: marks at time 0 in either
\* campaign (user 1 in the test group, user 2 in the control group, user 3 in
\* either), and spend of one currency unit in the first campaign
ReportEvents ==
    <<MarkEvent(1, TEST, 1), MarkEvent(1, TEST, 2),
      MarkEvent(2, CONTROL, 1), MarkEvent(2, CONTROL, 2),
      MarkEvent(3, TEST, 1), MarkEvent(3, TEST, 2),
      MarkEvent(3, CONTROL, 1), MarkEvent(3, CONTROL, 2),
      SpendEvent(TEST), SpendEvent(CONTROL)>>

\* attribution events after the marks
ReportAttributionEvents ==
    <<[ts |-> 1, user_id |-> 1, revenue_eur |-> Micros],
      [ts |-> 1, user_id |-> 2, revenue_eur |-> Micros],
      [ts |-> 1, user_id |-> 3, revenue_eur |-> Micros]>>

\* the tables of at most n rows taken from list, rows in the order of list
TablesOf(cols, list, n) ==
    UNION {{DataFrame(cols, [i \in 1..k |-> list[f[i]]]) :
              f \in {g \in [1..k -> 1..Len(list)] :
                       \A i \in 1..(k - 1) : g[i] <= g[i + 1]}} :
           k \in 0..n}

\* the configurations: no slice besides the total, or one named group of the
\* first campaign and a slice per campaign
Configurations ==
    {[groups |-> <<>>, per_campaign_results |-> FALSE],
     [groups |-> <<[name |-> "g1", campaigns |-> {1}]>>, per_campaign_results |-> TRUE]}

EmptyAttributions == DataFrame(ATTRIBUTIONS_COLUMNS, <<>>)

EmptyMarks == DataFrame(MARKS_COLUMNS, <<>>)

----------------------------------------------------------------------------
(* A Helpers object constructed with the default bootstrap size, before any *)
(* call of _calculate_ad_spend or _bootstrap_mean_ci                        *)

ConstructedByDefault ==
    /\ bootstrap_size_arg = DEFAULT_BOOTSTRAP_SIZE
    /\ bootstrap_size = init_bootstrap_size(DEFAULT_BOOTSTRAP_SIZE)
    /\ sample = <<>>
    /\ calculated_ad_spend = Pending
    /\ bootstrapped_means = Pending
    /\ mean_ci = Pending

----------------------------------------------------------------------------
(* Mark extraction, applied once and then again to its own output *)

InitMarked ==
    /\ pc = "start"
    /\ marks_and_spend_df \in {DataFrame(MARKS_COLUMNS, r) : r \in SeqUpTo(MarkEvents, MaxMarkRows)}
    /\ attributions_df = EmptyAttributions
    /\ max_timedelta = 1
    /\ groups = <<>>
    /\ per_campaign_results = FALSE
    /\ marks_df = Pending
    /\ remarked_df = Pending
    /\ users_df = Pending
    /\ deduplicated_df = Pending
    /\ uplift_df = Pending
    /\ report_df = Pending
    /\ ConstructedByDefault

Marked ==
    /\ pc = "start"
    /\ \E o \in _marked(marks_and_spend_df) : marks_df' = o
    /\ pc' = "marked"
    /\ marks_and_spend_df' =
         returns_new(marks_and_spend_df, filter_event_type(marks_and_spend_df, "mark"))
    /\ UNCHANGED <<attributions_df, max_timedelta, groups,
                   per_campaign_results, bootstrap_size_arg, bootstrap_size, sample,
                   calculated_ad_spend, bootstrapped_means, mean_ci,
                   remarked_df, users_df, deduplicated_df, uplift_df, report_df>>

MarkedAgain ==
    /\ pc = "marked"
    /\ marks_df.raised = "none"
    /\ \E o \in _marked(marks_df.value) : remarked_df' = o
    /\ pc' = "remarked"
    /\ UNCHANGED <<marks_and_spend_df, attributions_df, max_timedelta, groups,
                   per_campaign_results, bootstrap_size_arg, bootstrap_size, sample,
                   calculated_ad_spend, bootstrapped_means, mean_ci,
                   marks_df, users_df, deduplicated_df, uplift_df, report_df>>

NextMarked == Marked \/ MarkedAgain

SpecMarked == InitMarked /\ [][NextMarked]_vars

\* the mark events of a user in the input table, as positions
MarkPositions(u) ==
    {i \in 1..Len(marks_and_spend_df.rows) :
       /\ marks_and_spend_df.rows[i].event_type = "mark"
       /\ marks_and_spend_df.rows[i].user_id = u}

RecordPositions(out, u) == {i \in 1..Len(out.rows) : out.rows[i].user_id = u}

\* C3: the output of _marked has exactly one record per user that has a mark
\* event, the record carries the earliest timestamp of the user's mark events
\* and the group of a mark event with that timestamp, and a user without a
\* mark event (whatever other events it has) has no record.
C3_OneEarliestRecordPerUser ==
    pc = "marked" =>
      /\ marks_df.raised = "none"
      /\ \A u \in Users :
            LET mine == MarkPositions(u)
                recs == RecordPositions(marks_df.value, u)
            IN  IF mine = {} THEN recs = {}
                ELSE /\ Cardinality(recs) = 1
                     /\ \A i \in recs :
                           /\ \A m \in mine :
                                 marks_df.value.rows[i].ts <= marks_and_spend_df.rows[m].ts
                           /\ \E m \in mine :
                                 /\ marks_and_spend_df.rows[m].ts = marks_df.value.rows[i].ts
                                 /\ marks_and_spend_df.rows[m].ab_test_group =
                                      marks_df.value.rows[i].ab_test_group
      /\ \A i \in 1..Len(marks_df.value.rows) : marks_df.value.rows[i].user_id \in Users

\* a user marked twice at different times, listed latest first, next to a
\* non-mark event of a user that has no mark
C3_Witness ==
    /\ pc = "marked"
    /\ Len(marks_df.value.rows) = 1
    /\ \E u \in Users : \E i, j \in MarkPositions(u) :
          /\ i < j
          /\ marks_and_spend_df.rows[i].ts > marks_and_spend_df.rows[j].ts
    /\ \E u \in Users : \E k \in 1..Len(marks_and_spend_df.rows) :
          /\ MarkPositions(u) = {}
          /\ marks_and_spend_df.rows[k].user_id = u

RowSet(df) == {df.rows[i] : i \in 1..Len(df.rows)}

\* C4 as stated: the second application of _marked succeeds and yields the
\* same MarkRecord set as the first.
C4_Idempotent ==
    pc = "remarked" =>
      /\ remarked_df.raised = "none"
      /\ RowSet(remarked_df.value) = RowSet(marks_df.value)

\* C4 amended: the second application of _marked succeeds exactly when the
\* first output has no record, and then returns that output unchanged; when
\* the first output has a record the second application raises
\* AttributeError, because the event_type column it filters on was dropped.
C4_IdempotentOnlyWhenEmpty ==
    pc = "remarked" =>
      IF marks_df.value.rows = <<>>
      THEN remarked_df = marks_df
      ELSE remarked_df = Raises("AttributeError")

\* both arms: a re-application that raised on a deduplicated two-user output
C4_Witness ==
    /\ pc = "remarked"
    /\ Len(marks_df.value.rows) = 2
    /\ Len(marks_and_spend_df.rows) = 3
    /\ remarked_df.raised = "AttributeError"

C4_WitnessEmpty ==
    /\ pc = "remarked"
    /\ marks_and_spend_df.rows # <<>>
    /\ marks_df.value.rows = <<>>
    /\ remarked_df.raised = "none"

----------------------------------------------------------------------------
(* Mark extraction followed by the user merge *)

InitMerge ==
    /\ pc = "start"
    /\ marks_and_spend_df \in
         {DataFrame(MARKS_COLUMNS, r) : r \in SeqUpTo(MergeMarkEvents, MaxMergeMarkRows)}
    /\ attributions_df \in
         {DataFrame(ATTRIBUTIONS_COLUMNS, r) : r \in SeqUpTo(AttributionEvents, MaxAttrRows)}
    /\ max_timedelta = 1
    /\ groups = <<>>
    /\ per_campaign_results = FALSE
    /\ marks_df = Pending
    /\ remarked_df = Pending
    /\ users_df = Pending
    /\ deduplicated_df = Pending
    /\ uplift_df = Pending
    /\ report_df = Pending
    /\ ConstructedByDefault

MergeIntoUsers ==
    /\ pc = "marked"
    /\ marks_df.raised = "none"
    /\ users_df' = Returns(_merge_into_users_df(marks_df.value, attributions_df))
    /\ pc' = "merged"
    /\ attributions_df' =
         returns_new(attributions_df,
                     DataFrame(attributions_df.cols,
                               pd_merge_left(marks_df.value, attributions_df)))
    /\ UNCHANGED <<marks_and_spend_df, max_timedelta, groups,
                   per_campaign_results, bootstrap_size_arg, bootstrap_size, sample,
                   calculated_ad_spend, bootstrapped_means, mean_ci,
                   marks_df, remarked_df, deduplicated_df, uplift_df, report_df>>

NextMerge == Marked \/ MergeIntoUsers

SpecMerge == InitMerge /\ [][NextMerge]_vars

\* the attribution rows of a user, as positions
AttributionPositions(u) ==
    {i \in 1..Len(attributions_df.rows) : attributions_df.rows[i].user_id = u}

RECURSIVE SumRevenue(_)
SumRevenue(positions) ==
    IF positions = {} THEN 0
    ELSE LET i == CHOOSE j \in positions : TRUE
         IN  attributions_df.rows[i].revenue_eur + SumRevenue(positions \ {i})

\* C5: the merge has exactly one row per user of marks_df and none for any
\* other user, the row carries the group of the user's mark, and a user
\* without an attribution row has conversion_count 0 and revenue_eur 0.
C5_OneAggregatePerMarkedUser ==
    pc = "merged" =>
      /\ users_df.raised = "none"
      /\ \A u \in Users :
           LET marks == RecordPositions(marks_df.value, u)
               aggs == RecordPositions(users_df.value, u)
           IN  IF marks = {} THEN aggs = {}
               ELSE /\ Cardinality(aggs) = 1
                    /\ \A a \in aggs : \A m \in marks :
                         /\ users_df.value.rows[a].ab_test_group =
                              marks_df.value.rows[m].ab_test_group
                         /\ AttributionPositions(u) = {} =>
                              /\ users_df.value.rows[a].conversion_count = 0
                              /\ users_df.value.rows[a].revenue_eur = 0
      /\ Len(users_df.value.rows) = Len(marks_df.value.rows)

\* a marked user with two attribution rows next to a marked user with none,
\* and an attribution row of a user that is not marked
C5_Witness ==
    /\ pc = "merged"
    /\ Len(users_df.value.rows) = 2
    /\ \E u \in Users : RecordPositions(marks_df.value, u) # {}
                        /\ Cardinality(AttributionPositions(u)) >= 2
    /\ \E u \in Users : RecordPositions(marks_df.value, u) # {}
                        /\ AttributionPositions(u) = {}

\* the attribution rows of u that satisfy Later against the mark timestamp
CountedPositions(u, mark_ts, Later(_, _)) ==
    {i \in AttributionPositions(u) : Later(attributions_df.rows[i].ts, mark_ts)}

AggregatesAre(Later(_, _)) ==
    \A a \in 1..Len(users_df.value.rows) :
      LET agg == users_df.value.rows[a]
      IN  \A m \in RecordPositions(marks_df.value, agg.user_id) :
            LET counted == CountedPositions(agg.user_id, marks_df.value.rows[m].ts, Later)
            IN  /\ agg.conversion_count = Cardinality(counted)
                /\ agg.revenue_eur = SumRevenue(counted)

C7_CountsNotEarlier ==
    pc = "merged" => AggregatesAre(LAMBDA ts, mark_ts : ts >= mark_ts)

----------------------------------------------------------------------------
(* Deduplication of the attribution events *)

InitDedup ==
    /\ pc = "start"
    /\ marks_and_spend_df = EmptyMarks
    /\ attributions_df \in
         {DataFrame(ATTRIBUTIONS_COLUMNS, r) : r \in SeqUpTo(DedupEvents, MaxDedupRows)}
    /\ max_timedelta \in 1..MaxGap
    /\ groups = <<>>
    /\ per_campaign_results = FALSE
    /\ marks_df = Pending
    /\ remarked_df = Pending
    /\ users_df = Pending
    /\ deduplicated_df = Pending
    /\ uplift_df = Pending
    /\ report_df = Pending
    /\ ConstructedByDefault

DropDuplicatesInAttributions ==
    /\ pc = "start"
    /\ deduplicated_df' =
         Returns(_drop_duplicates_in_attributions(attributions_df, max_timedelta))
    /\ pc' = "deduplicated"
    /\ attributions_df' =
         returns_new(attributions_df,
                     DataFrame(attributions_df.cols,
                               sort_values_user_revenue(attributions_df.rows)))
    /\ UNCHANGED <<marks_and_spend_df, max_timedelta, groups,
                   per_campaign_results, bootstrap_size_arg, bootstrap_size, sample,
                   calculated_ad_spend, bootstrapped_means, mean_ci,
                   marks_df, remarked_df, users_df, uplift_df, report_df>>

NextDedup == DropDuplicatesInAttributions

SpecDedup == InitDedup /\ [][NextDedup]_vars

\* how often each row value occurs in a sequence of rows
Occurrences(rows, r) == Cardinality({i \in 1..Len(rows) : rows[i] = r})

\* row i comes before row j in the order (user_id, revenue_eur, timestamp)
ClaimedBefore(rows, i, j) ==
    \/ rows[i].user_id < rows[j].user_id
    \/ rows[i].user_id = rows[j].user_id /\ rows[i].revenue_eur < rows[j].revenue_eur
    \/ /\ rows[i].user_id = rows[j].user_id
       /\ rows[i].revenue_eur = rows[j].revenue_eur
       /\ \/ rows[i].ts < rows[j].ts
          \/ rows[i].ts = rows[j].ts /\ i < j

RECURSIVE ClaimedOrder(_, _)
ClaimedOrder(rows, todo) ==
    IF todo = {} THEN <<>>
    ELSE LET m == CHOOSE i \in todo : \A j \in todo \ {i} : ClaimedBefore(rows, i, j)
         IN  <<m>> \o ClaimedOrder(rows, todo \ {m})

\* the rows the stated rule retains: ordered by (user_id, revenue_eur,
\* timestamp), a row is dropped iff it has the user and revenue of its
\* immediate predecessor and is less than the gap later
ClaimedRetained(rows, gap) ==
    LET order == ClaimedOrder(rows, 1..Len(rows))
        sorted == [i \in 1..Len(rows) |-> rows[order[i]]]
    IN  Mask(sorted, {i \in 1..Len(sorted) :
                        ~ /\ i > 1
                          /\ sorted[i].user_id = sorted[i - 1].user_id
                          /\ sorted[i].revenue_eur = sorted[i - 1].revenue_eur
                          /\ sorted[i].ts - sorted[i - 1].ts < gap})

\* C8 as stated: the rows retained are those of the rule on the order
\* (user_id, revenue_eur, timestamp) with a drop for a distance strictly less
\* than the gap to the immediate predecessor; a row exactly the gap after its
\* predecessor is retained.
C8_DroppedIffCloserThanGap ==
    pc = "deduplicated" =>
      LET claimed == ClaimedRetained(attributions_df.rows, max_timedelta)
      IN  \A r \in DedupEvents :
            Occurrences(deduplicated_df.value.rows, r) = Occurrences(claimed, r)

\* C9 as stated: in any input row order the output is a sub-multiset of the
\* input, and two events of one user with the same revenue whose timestamps
\* are more than the gap apart are both in the output.
C9_SubMultisetKeepsFarApart ==
    pc = "deduplicated" =>
      /\ \A r \in DedupEvents :
           Occurrences(deduplicated_df.value.rows, r) <= Occurrences(attributions_df.rows, r)
      /\ \A i, j \in 1..Len(attributions_df.rows) :
           LET a == attributions_df.rows[i]
               b == attributions_df.rows[j]
           IN  (a.user_id = b.user_id /\ a.revenue_eur = b.revenue_eur
                  /\ a.ts - b.ts > max_timedelta)
               => /\ Occurrences(deduplicated_df.value.rows, a) >= 1
                  /\ Occurrences(deduplicated_df.value.rows, b) >= 1

----------------------------------------------------------------------------
(* The uplift report, and _uplift called on one of its slices *)

InitReport ==
    /\ pc = "start"
    /\ marks_and_spend_df \in TablesOf(MARKS_COLUMNS, ReportEvents, MaxReportRows)
    /\ attributions_df \in
         TablesOf(ATTRIBUTIONS_COLUMNS, ReportAttributionEvents, MaxReportAttrRows)
    /\ max_timedelta = 1
    /\ \E c \in Configurations :
         /\ groups = c.groups
         /\ per_campaign_results = c.per_campaign_results
    /\ marks_df = Pending
    /\ remarked_df = Pending
    /\ users_df = Pending
    /\ deduplicated_df = Pending
    /\ uplift_df = Pending
    /\ report_df = Pending
    /\ ConstructedByDefault

\* every slice of the report, "total" first
AllSlices ==
    <<[name |-> "total", df |-> marks_and_spend_df]>>
    \o slices(marks_and_spend_df, groups, per_campaign_results)

Uplift ==
    /\ pc = "start"
    /\ \E i \in 1..Len(AllSlices) :
         \E o \in _uplift(AllSlices[i].df, attributions_df, AllSlices[i].name,
                           bootstrap_size) :
           uplift_df' = [slice |-> i, raised |-> o.raised, value |-> o.value,
                         locals |-> o.locals]
    /\ pc' = "uplifted"
    /\ marks_and_spend_df' =
         returns_new(marks_and_spend_df, filter_event_type(marks_and_spend_df, "mark"))
    /\ UNCHANGED <<attributions_df, max_timedelta, groups,
                   per_campaign_results, bootstrap_size_arg, bootstrap_size, sample,
                   calculated_ad_spend, bootstrapped_means, mean_ci,
                   marks_df, remarked_df, users_df,
                   deduplicated_df, report_df>>

UpliftReport ==
    /\ pc = "start"
    /\ \E o \in uplift_report(marks_and_spend_df, attributions_df, groups,
                              per_campaign_results, bootstrap_size) : report_df' = o
    /\ pc' = "reported"
    /\ marks_and_spend_df' =
         returns_new(marks_and_spend_df, filter_event_type(marks_and_spend_df, "mark"))
    /\ UNCHANGED <<attributions_df, max_timedelta, groups,
                   per_campaign_results, bootstrap_size_arg, bootstrap_size, sample,
                   calculated_ad_spend, bootstrapped_means, mean_ci,
                   marks_df, remarked_df, users_df,
                   deduplicated_df, uplift_df>>

Next == Uplift \/ UpliftReport

Spec == InitReport /\ [][Next]_vars

\* the MarkRecord sets a slice can give
MarkRecordSets(df) == {m.value : m \in _marked(df)}

HasGroup(marks, group) == \E i \in 1..Len(marks.rows) : marks.rows[i].ab_test_group = group

\* the marks of the slice contain zero test users or zero control users
Degenerate(df) ==
    \A marks \in MarkRecordSets(df) : ~HasGroup(marks, TEST) \/ ~HasGroup(marks, CONTROL)

\* the marks of the slice contain a test user and a control user
Complete(df) ==
    \A marks \in MarkRecordSets(df) : HasGroup(marks, TEST) /\ HasGroup(marks, CONTROL)

HasColumn(report, name) == \E i \in 1..Len(report.columns) : report.columns[i] = name

\* C1 as stated: _uplift returns None without raising for a named group or a
\* campaign whose marks have zero test users or zero control users, and a
\* report whose total slice has both has no column for such a slice and a
\* column for every other slice.
C1_DegenerateSliceSkipped ==
    /\ (pc = "uplifted" /\ uplift_df.slice > 1 /\ Degenerate(AllSlices[uplift_df.slice].df))
         => /\ uplift_df.raised = "none"
            /\ uplift_df.value = None
    /\ (pc = "reported" /\ Complete(marks_and_spend_df))
         => /\ report_df.raised = "none"
            /\ report_df.value # None
            /\ \A i \in 2..Len(AllSlices) :
                 /\ Degenerate(AllSlices[i].df) => ~HasColumn(report_df.value, AllSlices[i].name)
                 /\ Complete(AllSlices[i].df) => HasColumn(report_df.value, AllSlices[i].name)

\* C2 as stated: uplift_report returns None exactly when the total slice has
\* zero test users or zero control users, and otherwise returns a report that
\* has a 'total' column.
C2_NoneIffTotalDegenerate ==
    pc = "reported" =>
      /\ Degenerate(marks_and_spend_df) => report_df = Returns(None)
      /\ Complete(marks_and_spend_df) =>
           /\ report_df.raised = "none"
           /\ report_df.value # None
           /\ HasColumn(report_df.value, "total")

\* C10 as stated: whatever the ad spend, the cost per incremental converter
\* estimate computed by _uplift is the sentinel exactly when the incremental
\* converters estimate is negative, and the iCPA estimate is its sentinel
\* exactly when the incremental conversions estimate is negative.
C10_SentinelIffNegativeEstimate ==
    (pc = "uplifted" /\ uplift_df.locals # None) =>
      /\ uplift_df.locals.cost_per_incremental_converter_estimate = NEGATIVE_CONVERTERS
           <=> LessThanZero(uplift_df.locals.incremental_converters_estimate)
      /\ uplift_df.locals.icpa_estimate = NEGATIVE_CONVERSIONS
           <=> LessThanZero(uplift_df.locals.incremental_conversions_estimate)

----------------------------------------------------------------------------
(* The KPIs of one slice: _uplift on a table of a single campaign *)

\* rows of a marks-and-spend table of one campaign: user 1 in the test group,
\* user 2 in the control group, user 3 in either, and spend of one currency
\* unit booked on either group
UpliftEvents ==
    <<MarkEvent(1, TEST, 1), MarkEvent(2, CONTROL, 1),
      MarkEvent(3, TEST, 1), MarkEvent(3, CONTROL, 1),
      SpendEvent(TEST), SpendEvent(CONTROL)>>

InitUplift ==
    /\ pc = "start"
    /\ marks_and_spend_df \in TablesOf(MARKS_COLUMNS, UpliftEvents, MaxUpliftRows)
    /\ attributions_df \in
         TablesOf(ATTRIBUTIONS_COLUMNS, ReportAttributionEvents, MaxUpliftAttrRows)
    /\ max_timedelta = 1
    /\ groups = <<>>
    /\ per_campaign_results = FALSE
    /\ marks_df = Pending
    /\ remarked_df = Pending
    /\ users_df = Pending
    /\ deduplicated_df = Pending
    /\ uplift_df = Pending
    /\ report_df = Pending
    /\ ConstructedByDefault

NextUplift == Uplift

SpecUplift == InitUplift /\ [][NextUplift]_vars

\* _uplift has computed the KPIs of the slice
Computed == pc = "uplifted" /\ uplift_df.locals # None

Numeric(x) == x.k \in {"fin", "inf", "nan"}

\* the two CI bounds of a cost KPI: both are the CI sentinel when the computed
\* upper bound ad_spend / incremental_l_bound is negative, and otherwise they
\* are the computed numbers
BoundsReplacedIffNegative(ad_spend, incremental_l_bound, incremental_u_bound,
                          l_bound, u_bound) ==
    LET computed_l_bound == Div(ad_spend, incremental_u_bound)
        computed_u_bound == Div(ad_spend, incremental_l_bound)
    IN  /\ (l_bound = CI_NEGATIVE /\ u_bound = CI_NEGATIVE)
            \/ (Numeric(l_bound) /\ Numeric(u_bound))
        /\ (l_bound = CI_NEGATIVE) <=> LessThanZero(computed_u_bound)
        /\ ~LessThanZero(computed_u_bound)
             => l_bound = computed_l_bound /\ u_bound = computed_u_bound

\* C11: for the cost per incremental converter and for the iCPA, the two CI
\* bounds computed by _uplift are both numbers or both the CI sentinel, and
\* they are the sentinel exactly when the computed upper bound (ad spend
\* divided by the incremental lower bound) is negative, whether or not the
\* estimate was replaced by its own sentinel.
C11_BoundsSentinelIffUpperNegative ==
    Computed =>
      LET kpis == uplift_df.locals
      IN  /\ BoundsReplacedIffNegative(kpis.ad_spend,
                                       kpis.incremental_converters_l_bound,
                                       kpis.incremental_converters_u_bound,
                                       kpis.cost_per_incremental_converter_l_bound,
                                       kpis.cost_per_incremental_converter_u_bound)
          /\ BoundsReplacedIffNegative(kpis.ad_spend,
                                       kpis.incremental_conversions_l_bound,
                                       kpis.incremental_conversions_u_bound,
                                       kpis.icpa_l_bound, kpis.icpa_u_bound)

\* the estimate was replaced while the bounds were not
C11_Witness ==
    /\ Computed
    /\ uplift_df.locals.icpa_estimate = NEGATIVE_CONVERSIONS
    /\ Numeric(uplift_df.locals.icpa_u_bound)
    /\ uplift_df.locals.cost_per_incremental_converter_u_bound = CI_NEGATIVE

\* C12: the iROAS estimate and its two CI bounds computed by _uplift are
\* always numbers, the incremental revenue estimate, lower bound and upper
\* bound divided by the ad spend; no sentinel takes their place, also when
\* the incremental revenue is negative.
C12_IroasNeverReplaced ==
    Computed =>
      LET kpis == uplift_df.locals
      IN  /\ Numeric(kpis.iroas_estimate)
          /\ Numeric(kpis.iroas_l_bound)
          /\ Numeric(kpis.iroas_u_bound)
          /\ kpis.iroas_estimate = Div(kpis.incremental_revenue_estimate, kpis.ad_spend)
          /\ kpis.iroas_l_bound = Div(kpis.incremental_revenue_l_bound, kpis.ad_spend)
          /\ kpis.iroas_u_bound = Div(kpis.incremental_revenue_u_bound, kpis.ad_spend)

\* money was spent and the incremental revenue is negative
C12_Witness ==
    /\ Computed
    /\ GreaterThanZero(uplift_df.locals.ad_spend)
    /\ LessThanZero(uplift_df.locals.incremental_revenue_estimate)
    /\ LessThanZero(uplift_df.locals.iroas_estimate)
    /\ LessThanZero(uplift_df.locals.iroas_u_bound)

\* C13 as stated: for a slice with a test user and a control user whose
\* control group has no conversion, _uplift returns the column of the slice
\* and its CVR uplift estimate is 0; with a positive control CVR the computed
\* estimate is test_cvr / control_cvr - 1.
C13_ZeroControlCvrStillReported ==
    Computed =>
      LET kpis == uplift_df.locals
      IN  /\ ~GreaterThanZero(kpis.control_cvr)
               => /\ uplift_df.raised = "none"
                  /\ uplift_df.value # None
                  /\ uplift_df.value.kpis.uplift_estimate = Zero(FALSE)
          /\ GreaterThanZero(kpis.control_cvr)
               => kpis.uplift_estimate = Sub(Div(kpis.test_cvr, kpis.control_cvr), Fin(1, 1))

IsZero(x) == x.k = "fin" /\ x.n = 0

NonFinite(x) == x.k \in {"inf", "nan"}

\* a quotient whose divisor is zero is reported as it is, infinite or
\* not-a-number, unless a sentinel took its place
HazardPropagates(divisor, quotient) ==
    IsZero(divisor) => NonFinite(quotient) \/ quotient.k = "str"

\* C14 as stated: when the ad spend is zero or an incremental converters or
\* conversions estimate or bound is zero, _uplift does not raise and returns
\* the column of the slice, in which each ratio with a zero divisor is
\* infinite or not-a-number unless a sentinel replaced it.
C14_DivisionHazardNotRaised ==
    Computed =>
      LET kpis == uplift_df.locals
      IN  (\/ IsZero(kpis.ad_spend)
           \/ IsZero(kpis.incremental_converters_estimate)
           \/ IsZero(kpis.incremental_converters_l_bound)
           \/ IsZero(kpis.incremental_converters_u_bound)
           \/ IsZero(kpis.incremental_conversions_estimate)
           \/ IsZero(kpis.incremental_conversions_l_bound)
           \/ IsZero(kpis.incremental_conversions_u_bound))
          => /\ uplift_df.raised = "none"
             /\ uplift_df.value # None
             /\ LET column == uplift_df.value.kpis
                IN  /\ HazardPropagates(column.ad_spend, column.iroas_estimate)
                    /\ HazardPropagates(column.ad_spend, column.iroas_l_bound)
                    /\ HazardPropagates(column.ad_spend, column.iroas_u_bound)
                    /\ HazardPropagates(column.incremental_converters_estimate,
                                        column.cost_per_incremental_converter_estimate)
                    /\ HazardPropagates(column.incremental_converters_l_bound,
                                        column.cost_per_incremental_converter_u_bound)
                    /\ HazardPropagates(column.incremental_converters_u_bound,
                                        column.cost_per_incremental_converter_l_bound)
                    /\ HazardPropagates(column.incremental_conversions_estimate,
                                        column.icpa_estimate)
                    /\ HazardPropagates(column.incremental_conversions_l_bound,
                                        column.icpa_u_bound)
                    /\ HazardPropagates(column.incremental_conversions_u_bound,
                                        column.icpa_l_bound)

\* a + b of finite values
Add(a, b) == Fin(a.n * b.d + b.n * a.d, a.d * b.d)

\* the users with a mark event in the table
MarkedUsers(df) ==
    {df.rows[i].user_id : i \in {j \in 1..Len(df.rows) : df.rows[j].event_type = "mark"}}

\* C15: in the KPIs _uplift computes for a column, the incremental converters
\* estimate plus the control converters times the ratio equals the test
\* converters, and the incremental conversions estimate plus the scaled
\* control conversions equals the test conversions, where the ratio is the
\* test group size over the control group size and the two sizes count the
\* merged users of each group.
C15_EstimatePlusScaledControlIsTest ==
    Computed =>
      LET kpis == uplift_df.locals
      IN  /\ kpis.test_group_size + kpis.control_group_size
               = Cardinality(MarkedUsers(marks_and_spend_df))
          /\ kpis.ratio = Fin(kpis.test_group_size, kpis.control_group_size)
          /\ Add(kpis.incremental_converters_estimate,
                 Mul(Fin(kpis.control_converters, 1), kpis.ratio))
               = Fin(kpis.test_converters, 1)
          /\ Add(kpis.incremental_conversions_estimate, kpis.scaled_control_conversions)
               = Fin(kpis.test_conversions, 1)
          /\ kpis.scaled_control_conversions
               = Mul(Fin(kpis.control_conversions, 1), kpis.ratio)

\* groups of different sizes and a control user who converted
C15_Witness ==
    /\ Computed
    /\ uplift_df.locals.test_group_size # uplift_df.locals.control_group_size
    /\ uplift_df.locals.control_converters > 0
    /\ uplift_df.locals.incremental_converters_estimate.d > 1

\* the bounds of one KPI family invert the scaled null bounds
BoundsInverted(test, null_l_bound, null_u_bound, l_bound, u_bound) ==
    /\ l_bound = Sub(test, null_u_bound)
    /\ u_bound = Sub(test, null_l_bound)
    /\ LessOrEqual(null_l_bound, null_u_bound) => LessOrEqual(l_bound, u_bound)

\* C16: for the converters, the conversions and the revenue, the incremental
\* lower bound _uplift computes is the test value minus the scaled null upper
\* bound and the incremental upper bound is the test value minus the scaled
\* null lower bound, so the lower bound is at most the upper bound whenever
\* the null lower bound is at most the null upper bound.
C16_BoundsInvertNullBounds ==
    Computed =>
      LET kpis == uplift_df.locals
      IN  /\ BoundsInverted(Fin(kpis.test_converters, 1),
                            Mul(kpis.no_treat_converters_l_bound, kpis.ratio),
                            Mul(kpis.no_treat_converters_u_bound, kpis.ratio),
                            kpis.incremental_converters_l_bound,
                            kpis.incremental_converters_u_bound)
          /\ BoundsInverted(Fin(kpis.test_conversions, 1),
                            kpis.scaled_no_treat_conversions_l_bound,
                            kpis.scaled_no_treat_conversions_u_bound,
                            kpis.incremental_conversions_l_bound,
                            kpis.incremental_conversions_u_bound)
          /\ BoundsInverted(kpis.test_revenue,
                            kpis.scaled_no_treat_revenue_l_bound,
                            kpis.scaled_no_treat_revenue_u_bound,
                            kpis.incremental_revenue_l_bound,
                            kpis.incremental_revenue_u_bound)

\* the null bounds of every family differ
C16_Witness ==
    /\ Computed
    /\ uplift_df.locals.no_treat_converters_l_bound # uplift_df.locals.no_treat_converters_u_bound
    /\ uplift_df.locals.incremental_conversions_l_bound
         # uplift_df.locals.incremental_conversions_u_bound
    /\ uplift_df.locals.incremental_revenue_l_bound # uplift_df.locals.incremental_revenue_u_bound

\* the users marked for a group, and those of them with an attribution event
UsersOfGroup(group) ==
    {marks_and_spend_df.rows[i].user_id :
       i \in {j \in 1..Len(marks_and_spend_df.rows) :
                /\ marks_and_spend_df.rows[j].event_type = "mark"
                /\ marks_and_spend_df.rows[j].ab_test_group = group}}

ConvertersOfGroup(group) ==
    {u \in UsersOfGroup(group) :
       \E i \in 1..Len(attributions_df.rows) : attributions_df.rows[i].user_id = u}

\* the end-to-end scenario at the size of the model: as many test users as
\* control users, all marked at time 0, each converter with one conversion of
\* revenue 1,000,000 at time 1, at least one test converter, and ad spend
\* booked on the test group
EndToEndScenario ==
    /\ UsersOfGroup(TEST) # {}
    /\ UsersOfGroup(TEST) \cap UsersOfGroup(CONTROL) = {}
    /\ Cardinality(UsersOfGroup(TEST)) = Cardinality(UsersOfGroup(CONTROL))
    /\ \A i, j \in 1..Len(attributions_df.rows) :
         attributions_df.rows[i].user_id = attributions_df.rows[j].user_id => i = j
    /\ ConvertersOfGroup(TEST) # {}
    /\ GreaterThanZero(_calculate_ad_spend(marks_and_spend_df))

\* C17 as stated, at the size of the model: in the end-to-end scenario
\* uplift_report returns a report whose 'total' column has the converters of
\* the two groups, ratio 1.0, the difference of the converters as incremental
\* converters estimate, the test spend in currency units as ad spend, one
\* currency unit of revenue per converter, the difference of the revenues as
\* incremental revenue estimate and that difference over the ad spend as
\* iROAS estimate (for 100 users a group, 30 and 10 converters and a spend of
\* 500: 10, 30, 1.0, 20, 500.0, 30.0, 10.0, 20.0 and 0.04).
C17_EndToEndTotalColumn ==
    (pc = "reported" /\ EndToEndScenario) =>
      /\ report_df.raised = "none"
      /\ report_df.value # None
      /\ LET total == report_df.value.data["total"].kpis
             test == Cardinality(ConvertersOfGroup(TEST))
             control == Cardinality(ConvertersOfGroup(CONTROL))
             ad_spend == _calculate_ad_spend(marks_and_spend_df)
         IN  /\ total.control_converters = control
             /\ total.test_converters = test
             /\ total.ratio = Fin(1, 1)
             /\ total.incremental_converters_estimate = Fin(test - control, 1)
             /\ total.ad_spend = ad_spend
             /\ total.test_revenue = Fin(test, 1)
             /\ total.control_revenue = Fin(control, 1)
             /\ total.incremental_revenue_estimate = Fin(test - control, 1)
             /\ total.iroas_estimate = Div(Fin(test - control, 1), ad_spend)

----------------------------------------------------------------------------
(* The ad spend of a table *)

\* rows of either event type and either group, each with a cost
SpendEvents ==
    [ts : {0}, user_id : {1}, event_type : {"mark", "buying_conversion"},
     ab_test_group : {TEST, CONTROL}, campaign_id : {1}, cost_eur : {1, Micros}]

InitAdSpend ==
    /\ pc = "start"
    /\ marks_and_spend_df \in
         {DataFrame(MARKS_COLUMNS, r) : r \in SeqUpTo(SpendEvents, MaxSpendRows)}
    /\ attributions_df = EmptyAttributions
    /\ max_timedelta = 1
    /\ groups = <<>>
    /\ per_campaign_results = FALSE
    /\ marks_df = Pending
    /\ remarked_df = Pending
    /\ users_df = Pending
    /\ deduplicated_df = Pending
    /\ uplift_df = Pending
    /\ report_df = Pending
    /\ ConstructedByDefault

CalculateAdSpend ==
    /\ pc = "start"
    /\ calculated_ad_spend' = Returns(_calculate_ad_spend(marks_and_spend_df))
    /\ pc' = "spent"
    /\ marks_and_spend_df' =
         returns_new(marks_and_spend_df,
                     DataFrame(marks_and_spend_df.cols,
                               SelectSeq(marks_and_spend_df.rows, spend_mask)))
    /\ UNCHANGED <<attributions_df, max_timedelta, groups,
                   per_campaign_results, bootstrap_size_arg, bootstrap_size, sample,
                   bootstrapped_means, mean_ci, marks_df, remarked_df, users_df,
                   deduplicated_df, uplift_df, report_df>>

NextAdSpend == CalculateAdSpend

SpecAdSpend == InitAdSpend /\ [][NextAdSpend]_vars

\* the rows that are spend of the test group
TestSpendPositions ==
    {i \in 1..Len(marks_and_spend_df.rows) :
       /\ marks_and_spend_df.rows[i].event_type = "buying_conversion"
       /\ marks_and_spend_df.rows[i].ab_test_group = TEST}

RECURSIVE SumCost(_)
SumCost(positions) ==
    IF positions = {} THEN 0
    ELSE LET i == CHOOSE j \in positions : TRUE
         IN  marks_and_spend_df.rows[i].cost_eur + SumCost(positions \ {i})

\* C18: the ad spend of a table is the sum of cost_eur over exactly its rows
\* with event_type buying_conversion and ab_test_group test, divided by 1e6;
\* rows of the control group and rows of other event types add nothing, and
\* a table without such a row has ad spend 0.
C18_AdSpendSumsTestSpendRows ==
    pc = "spent" =>
      /\ calculated_ad_spend = Returns(Fin(SumCost(TestSpendPositions), Micros))
      /\ TestSpendPositions = {} => calculated_ad_spend = Returns(Zero(FALSE))

\* a spend row of each group and a mark row, all with a cost
C18_Witness ==
    /\ pc = "spent"
    /\ TestSpendPositions # {}
    /\ \E i \in 1..Len(marks_and_spend_df.rows) :
         /\ marks_and_spend_df.rows[i].event_type = "buying_conversion"
         /\ marks_and_spend_df.rows[i].ab_test_group = CONTROL
    /\ \E i \in 1..Len(marks_and_spend_df.rows) :
         marks_and_spend_df.rows[i].event_type = "mark"
    /\ GreaterThanZero(calculated_ad_spend.value)

----------------------------------------------------------------------------
(* A caller that keeps its two tables and its Helpers object and calls the *)
(* report and the four helpers on them, again and again                    *)

FrameAttributionEvents == [ts : {1}, user_id : {1, 2}, revenue_eur : {Micros}]

InitFrame ==
    /\ pc = "start"
    /\ marks_and_spend_df \in TablesOf(MARKS_COLUMNS, ReportEvents, MaxFrameRows)
    /\ attributions_df \in
         {DataFrame(ATTRIBUTIONS_COLUMNS, r) :
            r \in SeqUpTo(FrameAttributionEvents, MaxFrameAttrRows)}
    /\ max_timedelta = 1
    /\ \E c \in Configurations :
         /\ groups = c.groups
         /\ per_campaign_results = c.per_campaign_results
    /\ marks_df = Pending
    /\ remarked_df = Pending
    /\ users_df = Pending
    /\ deduplicated_df = Pending
    /\ uplift_df = Pending
    /\ report_df = Pending
    /\ ConstructedByDefault

\* the caller drops what the last call returned and is ready to call again
Again ==
    /\ pc # "start"
    /\ pc' = "start"
    /\ marks_df' = Pending
    /\ users_df' = Pending
    /\ deduplicated_df' = Pending
    /\ report_df' = Pending
    /\ calculated_ad_spend' = Pending
    /\ UNCHANGED <<marks_and_spend_df, attributions_df, max_timedelta, groups,
                   per_campaign_results, bootstrap_size_arg, bootstrap_size, sample,
                   bootstrapped_means, mean_ci, remarked_df, uplift_df>>

NextFrame ==
    \/ Marked
    \/ CalculateAdSpend
    \/ MergeIntoUsers
    \/ DropDuplicatesInAttributions
    \/ UpliftReport
    \/ Again

SpecFrame == InitFrame /\ [][NextFrame]_vars

\* C19: uplift_report and each of _marked, _calculate_ad_spend,
\* _merge_into_users_df and _drop_duplicates_in_attributions leave the
\* caller's marks-and-spend table and attributions table as they were (same
\* rows, columns and order) and change no attribute of the Helpers object, so
\* the next call sees the same inputs and configuration.
C19_InputsAndObjectUnchanged ==
    [][/\ marks_and_spend_df' = marks_and_spend_df
       /\ attributions_df' = attributions_df
       /\ max_timedelta' = max_timedelta
       /\ groups' = groups
       /\ per_campaign_results' = per_campaign_results
       /\ bootstrap_size' = bootstrap_size]_vars

\* the deduplication returned other rows than the caller's table holds
C19_Witness ==
    /\ pc = "deduplicated"
    /\ deduplicated_df.raised = "none"
    /\ deduplicated_df.value.rows # attributions_df.rows
    /\ marks_and_spend_df.rows # <<>>

----------------------------------------------------------------------------
(* The bootstrap: a Helpers object is constructed with a bootstrap size and *)
(* _bootstrap_mean_ci is called on a sample                                  *)

\* per-user conversion counts of a control group
Samples == {<<1>>, <<0, 1>>}

InitBootstrap ==
    /\ pc = "new"
    /\ bootstrap_size_arg \in 1..MaxBootstrapSize
    /\ bootstrap_size = None
    /\ sample \in Samples
    /\ marks_and_spend_df = EmptyMarks
    /\ attributions_df = EmptyAttributions
    /\ max_timedelta = 1
    /\ groups = <<>>
    /\ per_campaign_results = FALSE
    /\ marks_df = Pending
    /\ remarked_df = Pending
    /\ users_df = Pending
    /\ deduplicated_df = Pending
    /\ uplift_df = Pending
    /\ report_df = Pending
    /\ calculated_ad_spend = Pending
    /\ bootstrapped_means = Pending
    /\ mean_ci = Pending

\* Helpers.__init__
Construct ==
    /\ pc = "new"
    /\ bootstrap_size' = init_bootstrap_size(bootstrap_size_arg)
    /\ pc' = "start"
    /\ UNCHANGED <<marks_and_spend_df, attributions_df, max_timedelta, groups,
                   per_campaign_results, bootstrap_size_arg, sample, marks_df,
                   remarked_df, users_df, deduplicated_df, uplift_df, report_df,
                   calculated_ad_spend, bootstrapped_means, mean_ci>>

\* Helpers._bootstrap_mean_ci(sample)
BootstrapMeanCI ==
    /\ pc = "start"
    /\ \E means \in SortedLists(ResampleMeans(sample), bootstrap_size) :
         /\ bootstrapped_means' = Returns(means)
         /\ mean_ci' = quantiles(means, bootstrap_size, confidence_level)
    /\ pc' = "bootstrapped"
    /\ UNCHANGED <<marks_and_spend_df, attributions_df, max_timedelta, groups,
                   per_campaign_results, bootstrap_size_arg, bootstrap_size, sample,
                   marks_df, remarked_df, users_df, deduplicated_df, uplift_df,
                   report_df, calculated_ad_spend>>

NextBootstrap == Construct \/ BootstrapMeanCI

SpecBootstrap == InitBootstrap /\ [][NextBootstrap]_vars

\* C20: the bootstrap_size of the object is the configured value minus one
\* when the configured value is a multiple of 10 and the configured value
\* otherwise (9999 for the default 10000), and _bootstrap_mean_ci draws
\* exactly that many resample means.
C20_BootstrapSizeRoundedDown ==
    /\ init_bootstrap_size(DEFAULT_BOOTSTRAP_SIZE) = DEFAULT_BOOTSTRAP_SIZE - 1
    /\ pc # "new" =>
         bootstrap_size = IF \E k \in 1..bootstrap_size_arg : bootstrap_size_arg = 10 * k
                          THEN bootstrap_size_arg - 1 ELSE bootstrap_size_arg
    /\ pc = "bootstrapped" =>
         /\ Len(bootstrapped_means.value) = bootstrap_size
         /\ \A i \in 1..bootstrap_size :
              bootstrapped_means.value[i] \in ResampleMeans(sample)

\* a round configured size, one mean fewer drawn
C20_Witness ==
    /\ pc = "bootstrapped"
    /\ bootstrap_size_arg = 40
    /\ Len(bootstrapped_means.value) = 39
    /\ bootstrapped_means.value[1] # bootstrapped_means.value[39]

\* C21 as stated: for every configured bootstrap size of at least 1 the two
\* quantile positions are positions of the sorted list of bootstrap_size
\* means, 0 <= lower position <= upper position <= bootstrap_size - 1, so
\* _bootstrap_mean_ci does not index out of range and returns a lower bound
\* that is at most the upper bound.
C21_QuantileIndicesValid ==
    pc = "bootstrapped" =>
      /\ 0 <= lower_index(bootstrap_size, confidence_level)
      /\ lower_index(bootstrap_size, confidence_level)
           <= upper_index(bootstrap_size, confidence_level)
      /\ upper_index(bootstrap_size, confidence_level) <= bootstrap_size - 1
      /\ mean_ci.raised = "none"
      /\ LessOrEqual(mean_ci.value[1], mean_ci.value[2])

====
